---- MODULE Spec2Model ----
(***************************************************************************)
(* State-machine model of the corpus analysis script uhlumagama_web.py.    *)
(* A text is a sequence of one-character strings.  The session holds the   *)
(* decoded text and its tokens; every analysis branch of the script is one *)
(* action that recomputes its result from them.                            *)
(***************************************************************************)
EXTENDS Integers, Sequences, FiniteSets, TLC

VARIABLES uploaded, text, tokens, analysis_type, args, result, raised

vars == <<uploaded, text, tokens, analysis_type, args, result, raised>>

(***************************************************************************)
(* Characters.                                                             *)
(***************************************************************************)
LowerLetters == <<"a", "b", "c", "e", "h", "m", "n", "o", "s", "t">>
UpperLetters == <<"A", "B", "C", "E", "H", "M", "N", "O", "S", "T">>
Digits == {"1"}
NLetters == Len(LowerLetters)

Range(s) == {s[i] : i \in DOMAIN s}

\* str.isalpha on one character
isalpha(c) == c \in Range(LowerLetters) \cup Range(UpperLetters)

\* str.isspace on one character
isspace(c) == c = " "

\* the regular-expression class \w
IsWordChar(c) == isalpha(c) \/ c \in Digits \/ c = "_"

\* str.lower on one character
lower(c) ==
  IF c \in Range(UpperLetters)
  THEN LowerLetters[CHOOSE i \in 1..NLetters : UpperLetters[i] = c]
  ELSE c

\* str.upper on one character
upper(c) ==
  IF c \in Range(LowerLetters)
  THEN UpperLetters[CHOOSE i \in 1..NLetters : LowerLetters[i] = c]
  ELSE c

\* the sequence with the elements f[1], ..., f[n], built once
Seq1(f, n) == SubSeq(f, 1, n)

\* str.lower on a string
StrLower(s) == Seq1([i \in 1..Len(s) |-> lower(s[i])], Len(s))

(***************************************************************************)
(* Python helpers.                                                         *)
(***************************************************************************)
Min(a, b) == IF a < b THEN a ELSE b
Max(a, b) == IF a > b THEN a ELSE b

\* seq[lo:hi] with 0-based non-negative bounds, clamped as Python clamps
Slice(s, lo, hi) == SubSeq(s, Min(lo, Len(s)) + 1, Min(hi, Len(s)))

\* seq[k:] for any integer k (a negative k counts from the end)
SliceFrom(s, k) ==
  IF k >= 0 THEN Slice(s, k, Len(s)) ELSE Slice(s, Max(Len(s) + k, 0), Len(s))

\* seq[:k] for any integer k
SliceTo(s, k) ==
  IF k >= 0 THEN Slice(s, 0, k) ELSE Slice(s, 0, Max(Len(s) + k, 0))

\* sep.join(parts)
RECURSIVE join(_, _)
join(sep, parts) ==
  IF parts = <<>> THEN <<>>
  ELSE IF Len(parts) = 1 THEN parts[1]
  ELSE parts[1] \o sep \o join(sep, Tail(parts))

(***************************************************************************)
(* Tokenizer: RegexpTokenizer(r'\w+').tokenize, the maximal runs of word   *)
(* characters from left to right.                                          *)
(***************************************************************************)
\* the positions of a sequence of flags that are set, ascending
Positions(flags) == SelectSeq([i \in 1..Len(flags) |-> i], LAMBDA i : flags[i])

\* where the run of word characters that starts at i ends
RunEnd(s, i) ==
  CHOOSE e \in i..Len(s) :
    /\ \A k \in i..e : IsWordChar(s[k])
    /\ e = Len(s) \/ ~IsWordChar(s[e + 1])

tokenize(s) ==
  LET IsStart(i) == IsWordChar(s[i]) /\ (i = 1 \/ ~IsWordChar(s[i - 1]))
      starts == Positions(Seq1([i \in 1..Len(s) |-> IsStart(i)], Len(s)))
  IN  Seq1([j \in 1..Len(starts) |-> SubSeq(s, starts[j], RunEnd(s, starts[j]))],
           Len(starts))

(***************************************************************************)
(* FreqDist / Counter: one counting pass; the keys keep the order of their *)
(* first occurrence (dict insertion order).                                *)
(***************************************************************************)
\* FreqDist with the first occurrence of each item left uncounted
FreqDistOffByOne(items) ==
  LET IsFirst(i) == \A j \in 1..(i - 1) : items[j] # items[i]
      firsts == Positions(Seq1([i \in 1..Len(items) |-> IsFirst(i)], Len(items)))
      keys == Seq1([j \in 1..Len(firsts) |-> items[firsts[j]]], Len(firsts))
  IN  [keys |-> keys,
       cnt |-> Seq1([j \in 1..Len(keys) |->
                       Cardinality({i \in 1..Len(items) : items[i] = keys[j]}) - 1],
                    Len(keys))]

FreqDist(items) ==
  LET IsFirst(i) == \A j \in 1..(i - 1) : items[j] # items[i]
      firsts == Positions(Seq1([i \in 1..Len(items) |-> IsFirst(i)], Len(items)))
      keys == Seq1([j \in 1..Len(firsts) |-> items[firsts[j]]], Len(firsts))
  IN  [keys |-> keys,
       cnt |-> Seq1([j \in 1..Len(keys) |->
                       Cardinality({i \in 1..Len(items) : items[i] = keys[j]})],
                    Len(keys))]

\* dict.items(): (key, count) pairs in insertion order
Items(fd) == Seq1([j \in 1..Len(fd.keys) |-> <<fd.keys[j], fd.cnt[j]>>], Len(fd.keys))

\* sum(values)
RECURSIVE SumRange(_, _, _)
SumRange(s, lo, hi) ==
  IF lo > hi THEN 0
  ELSE IF lo = hi THEN s[lo]
  ELSE LET mid == (lo + hi) \div 2
       IN  SumRange(s, lo, mid) + SumRange(s, mid + 1, hi)

SumSeq(s) == SumRange(s, 1, Len(s))

(***************************************************************************)
(* sorted(items, key=lambda x: x[1], reverse=True): a stable sort, rows of *)
(* equal count keep their input order.                                     *)
(***************************************************************************)
\* an insertion that puts a row before the rows of equal count
InsertDescUnstable(sorted, row) ==
  LET p == Cardinality({j \in 1..Len(sorted) : sorted[j][2] > row[2]})
  IN  SubSeq(sorted, 1, p) \o <<row>> \o SubSeq(sorted, p + 1, Len(sorted))

InsertDesc(sorted, row) ==
  LET p == Cardinality({j \in 1..Len(sorted) : sorted[j][2] >= row[2]})
  IN  SubSeq(sorted, 1, p) \o <<row>> \o SubSeq(sorted, p + 1, Len(sorted))

RECURSIVE SortFrom(_, _, _)
SortFrom(rows, i, acc) ==
  IF i > Len(rows) THEN acc ELSE SortFrom(rows, i + 1, InsertDesc(acc, rows[i]))

SortedByCountDesc(rows) == SortFrom(rows, 1, <<>>)

\* the rows whose count is at least minc, in order
SelectRows(rows, minc) == SelectSeq(rows, LAMBDA r : r[2] >= minc)

\* the sequences over S of length at most n
RECURSIVE SeqsUpTo(_, _)
SeqsUpTo(S, n) ==
  IF n = 0 THEN {<<>>}
  ELSE LET shorter == SeqsUpTo(S, n - 1)
       IN  shorter \cup {Append(t, c) : t \in {u \in shorter : Len(u) = n - 1}, c \in S}

(***************************************************************************)
(* Rounding of a non-negative ratio num/den to the nearest integer, ties   *)
(* to even, as round() and the format specifications do.                   *)
(***************************************************************************)
RoundRatio(num, den) ==
  LET q == num \div den
      r == num % den
  IN  IF 2 * r < den THEN q
      ELSE IF 2 * r > den THEN q + 1
      ELSE IF q % 2 = 0 THEN q ELSE q + 1

(***************************************************************************)
(* st.slider(min_value, max_value, value): the bounds are adjusted so that *)
(* min <= value <= max; the user then picks any integer in the range.      *)
(***************************************************************************)
SliderRange(min_value, max_value, value) ==
  LET lo1 == Min(min_value, max_value)
      hi1 == Max(lo1, max_value)
  IN  Min(value, lo1)..Max(value, hi1)

(***************************************************************************)
(* Bounds of the exploration and the inputs drawn from them.               *)
(***************************************************************************)
MaxTextLen == 3
MaxRep == 27
MaxPad == 20
MaxMinFreq == 3
MaxKeyRows == 1

ShortChars == {"a", "A", " "}

RECURSIVE Repeat(_, _)
Repeat(unit, k) == IF k <= 0 THEN <<>> ELSE unit \o Repeat(unit, k - 1)

wA == <<"a">>
wB == <<"b">>
wThe == <<"t", "h", "e">>
wTHE == <<"T", "h", "e">>
wCat == <<"c", "a", "t">>
wSat == <<"s", "a", "t">>
wOn == <<"o", "n">>
wMat == <<"m", "a", "t">>
Sp == <<" ">>

TheCatText == join(Sp, <<wThe, wCat, wSat, wOn, wThe, wMat>>)

\* twelve distinct words with counts 3, 2, 2, 1, ...; mixed case; a digit
VocabText ==
  join(Sp, <<wOn, wThe, wCat, wThe, wTHE, wCat, wSat, wMat, wA, wB, <<"A">>,
             <<"a", "b">>, <<"b", "a">>, <<"n", "o", "1">>, wMat, wThe, wMat>>)
  \o <<".">>

SampleTexts ==
  { TheCatText, VocabText,
    join(Sp, <<wA, wB, wB, <<"c", "c", "c">>>>),
    join(Sp, <<wA, wB, wCat>>) \o <<".", " ">> \o wA,
    join(Sp, <<wA, wB, wA, wB, wA>>),
    <<".", ".", " ", "1">>, <<".">>, <<".", " ", ".">> }

RepUnits == { <<"a", " ">>, <<"a", " ", "A", " ", "b", " ">>, <<"a", "b", " ">> }

RepCounts == 1..2 \cup (MaxRep - 3)..MaxRep

RepTexts == {Repeat(u, k) : u \in RepUnits, k \in RepCounts}

PadCounts == 0..1 \cup (MaxPad - 2)..MaxPad

PadTexts ==
  {Repeat(<<"b", " ">>, k) \o <<"a", " ">> \o Repeat(<<"b", " ">>, m) :
     k \in PadCounts, m \in PadCounts}

Texts == SeqsUpTo(ShortChars, MaxTextLen) \cup SampleTexts

LongTexts == RepTexts \cup PadTexts \cup {TheCatText}

\* what the user may type into the search box
Queries == { <<"a">>, <<"A">>, <<"b">>, <<"a", "b">>, wThe, wTHE, <<" ">>, <<>> }

TopNSamples == {10, 11, 50}

(***************************************************************************)
(* Construction: no file uploaded, session state empty.                    *)
(***************************************************************************)
NoArgs == [none |-> TRUE]
NoResult == [none |-> TRUE]

Init ==
  /\ uploaded = FALSE
  /\ text = <<>>
  /\ tokens = <<>>
  /\ analysis_type = "none"
  /\ args = NoArgs
  /\ result = NoResult
  /\ raised = "none"

\* the file is decoded and tokenized into the session state
Upload(t) ==
  /\ uploaded' = TRUE
  /\ text' = t
  /\ tokens' = tokenize(t)
  /\ analysis_type' = "none"
  /\ args' = NoArgs
  /\ result' = NoResult
  /\ raised' = "none"

(***************************************************************************)
(* Word List branch.                                                       *)
(***************************************************************************)
\* freq_df: the (word, count) rows sorted by count, with the percentage in
\* hundredths of a percent; there is no row when there is no token
FreqRows(toks) ==
  LET rows == SortedByCountDesc(Items(FreqDist(toks)))
  IN  Seq1([j \in 1..Len(rows) |->
              <<rows[j][1], rows[j][2], RoundRatio(rows[j][2] * 10000, Len(toks))>>],
           Len(rows))

\* freq_df[freq_df["Frequency"] >= min_freq].head(top_n)
TopRows(rows, top_n, min_freq) == SliceTo(SelectRows(rows, min_freq), top_n)

\* the slider "Show top N words" over the len(freq_df) rows
WordListTopN(toks) ==
  LET rows == Len(FreqDist(toks).keys)
      r == SliderRange(10, Min(500, rows), 50)
  IN  {k \in TopNSamples \cup {rows} : k \in r}

WordList(top_n, min_freq) ==
  /\ uploaded
  /\ analysis_type' = "Word List"
  /\ args' = [top_n |-> top_n, min_freq |-> min_freq]
  /\ LET freq_df == FreqRows(tokens)
     IN  result' = [freq_df |-> freq_df,
                    filtered_df |-> TopRows(freq_df, top_n, min_freq)]
  /\ raised' = "none"
  /\ UNCHANGED <<uploaded, text, tokens>>

(***************************************************************************)
(* Concordance branch: nltk.Text(tokens).concordance_list(word) with the   *)
(* library's defaults width=79 and lines=25.                               *)
(***************************************************************************)
ConcWidth == 79
ConcLines == 25

\* ConcordanceIndex.offsets: the 0-based positions whose token, lowercased,
\* is the lowercased word, ascending
offsets(toks, word) ==
  LET Hit(i) == StrLower(toks[i]) = StrLower(word)
      hits == Positions(Seq1([i \in 1..Len(toks) |-> Hit(i)], Len(toks)))
  IN  Seq1([j \in 1..Len(hits) |-> hits[j] - 1], Len(hits))

\* a ConcordanceLine whose right context is as wide as the left one
ConcordanceLineSymmetric(toks, word, i) ==
  LET half_width == (ConcWidth - Len(word) - 2) \div 2
      context == ConcWidth \div 4
      query_word == toks[i + 1]
      left_context == Slice(toks, Max(0, i - context), i)
      right_context == Slice(toks, i + 1, i + 1 + context)
      left_print == SliceFrom(join(Sp, left_context), -half_width)
      right_print == SliceTo(join(Sp, right_context), half_width)
  IN  [offset |-> i, left |-> left_context, query |-> query_word,
       right |-> right_context,
       line |-> join(Sp, <<left_print, query_word, right_print>>)]

\* one ConcordanceLine for the match at 0-based position i
ConcordanceLine(toks, word, i) ==
  LET half_width == (ConcWidth - Len(word) - 2) \div 2
      context == ConcWidth \div 4
      query_word == toks[i + 1]
      left_context == Slice(toks, Max(0, i - context), i)
      right_context == Slice(toks, i + 1, i + context)
      left_print == SliceFrom(join(Sp, left_context), -half_width)
      right_print == SliceTo(join(Sp, right_context), half_width)
  IN  [offset |-> i, left |-> left_context, query |-> query_word,
       right |-> right_context,
       line |-> join(Sp, <<left_print, query_word, right_print>>)]

find_concordance(toks, word) ==
  LET offs == offsets(toks, word)
  IN  Seq1([j \in 1..Len(offs) |-> ConcordanceLine(toks, word, offs[j])], Len(offs))

concordance_list(toks, word) == SliceTo(find_concordance(toks, word), ConcLines)

Concordance(search_word) ==
  /\ uploaded
  /\ analysis_type' = "Concordance"
  /\ args' = [search_word |-> search_word]
  /\ result' =
       IF search_word = <<>> THEN NoResult
       ELSE LET cl == concordance_list(tokens, StrLower(search_word))
            IN  [concordance_list |-> cl,
                 found |-> Len(cl),
                 concordance_df |-> Seq1([j \in 1..Len(cl) |-> <<j, cl[j].line>>],
                                         Len(cl))]
  /\ raised' = "none"
  /\ UNCHANGED <<uploaded, text, tokens>>

(***************************************************************************)
(* N-grams branch.                                                         *)
(***************************************************************************)
\* ngrams that stops one window early
ngramsDropLast(toks, n) ==
  LET shifted == Seq1([i \in 1..n |-> SliceFrom(toks, i - 1)], n)
      shortest == CHOOSE m \in {Len(shifted[i]) : i \in 1..n} :
                    \A i \in 1..n : m <= Len(shifted[i])
      count == Max(shortest - 1, 0)
  IN  Seq1([j \in 1..count |-> Seq1([i \in 1..n |-> shifted[i][j]], n)], count)

\* nltk.ngrams: n copies of the sequence, the i-th advanced by i items (an
\* exhausted copy stays exhausted), zipped: the result stops with the
\* shortest copy
ngrams(toks, n) ==
  LET shifted == Seq1([i \in 1..n |-> SliceFrom(toks, i - 1)], n)
      shortest == CHOOSE m \in {Len(shifted[i]) : i \in 1..n} :
                    \A i \in 1..n : m <= Len(shifted[i])
  IN  Seq1([j \in 1..shortest |-> Seq1([i \in 1..n |-> shifted[i][j]], n)], shortest)

\* the items handed to FreqDist
NGramItems(toks, n) ==
  IF n = 1 THEN toks
  ELSE LET n_grams == ngrams(toks, n)
       IN  Seq1([j \in 1..Len(n_grams) |-> join(Sp, n_grams[j])], Len(n_grams))

NGramSizes == 1..5

NGramTopN == {k \in TopNSamples \cup {200} : k \in SliderRange(10, 200, 50)}

NGrams(n, top_n) ==
  /\ uploaded
  /\ analysis_type' = "N-grams"
  /\ args' = [n |-> n, top_n |-> top_n]
  /\ result' =
       LET n_gram_freq == FreqDist(NGramItems(tokens, n))
       IN  [n_gram_freq |-> n_gram_freq,
            n_gram_df |-> SliceTo(SortedByCountDesc(Items(n_gram_freq)), top_n)]
  /\ raised' = "none"
  /\ UNCHANGED <<uploaded, text, tokens>>

(***************************************************************************)
(* Keyness branch.  keyness.log_likelihood and the sentence splitter are   *)
(* third-party code: the rows returned are the first words of the two      *)
(* corpora, each with any value of the grid (hundredths).                  *)
(***************************************************************************)
LLValues == {-100, 663, 664, 1083, 1084, 1513, 1514, 2500}

\* the bands with the thresholds included
SignificanceInclusive(x) ==
  IF x >= 1513 THEN "Very High"
  ELSE IF x >= 1083 THEN "High"
  ELSE IF x >= 663 THEN "Medium"
  ELSE "Low"

\* the lambda of the Significance column; x in hundredths
Significance(x) ==
  IF x > 1513 THEN "Very High"
  ELSE IF x > 1083 THEN "High"
  ELSE IF x > 663 THEN "Medium"
  ELSE "Low"

RefTexts == { join(Sp, <<wThe, wMat>>), <<>> }

Keyness(ref_text) ==
  /\ uploaded
  /\ \E words \in {FreqDist(tokens \o tokenize(ref_text)).keys} :
         \E values \in SeqsUpTo(LLValues, Min(MaxKeyRows, Len(words))) :
           LET rows == Len(values)
               keyness_results ==
                 Seq1([j \in 1..rows |-> <<words[j], values[j]>>], rows)
           IN  result' =
                 [keyness_df |-> Seq1([j \in 1..rows |->
                    <<keyness_results[j][1], keyness_results[j][2],
                      Significance(keyness_results[j][2])>>], rows)]
  /\ analysis_type' = "Keyness"
  /\ args' = [ref_text |-> ref_text]
  /\ raised' = "none"
  /\ UNCHANGED <<uploaded, text, tokens>>

(***************************************************************************)
(* Wordcloud branch (the part that selects the words).                     *)
(***************************************************************************)
Wordcloud(min_freq) ==
  /\ uploaded
  /\ analysis_type' = "Wordcloud"
  /\ args' = [min_freq |-> min_freq]
  /\ result' = [filtered_words |-> SelectRows(Items(FreqDist(tokens)), min_freq)]
  /\ raised' = "none"
  /\ UNCHANGED <<uploaded, text, tokens>>

(***************************************************************************)
(* Letter Frequency branch.                                                *)
(***************************************************************************)
\* the letters kept in their own case
LettersCasePreserved(s) == SelectSeq(s, isalpha)

\* [char.lower() for char in text if char.isalpha()]
Letters(s) ==
  LET kept == SelectSeq(s, isalpha)
  IN  Seq1([j \in 1..Len(kept) |-> lower(kept[j])], Len(kept))

LetterFrequency ==
  /\ uploaded
  /\ analysis_type' = "Letter Frequency"
  /\ args' = NoArgs
  /\ LET letter_freq == FreqDist(Letters(text))
         total_letters == SumSeq(letter_freq.cnt)
         rows == SortedByCountDesc(Items(letter_freq))
         letter_data == Seq1([j \in 1..Len(rows) |->
                                <<upper(rows[j][1]), rows[j][2],
                                  RoundRatio(rows[j][2] * 10000, total_letters)>>],
                             Len(rows))
     IN  /\ result' = [letter_freq |-> letter_freq,
                       total_letters |-> total_letters,
                       letter_df |-> letter_data]
         \* letter_df.iloc[0]
         /\ raised' = IF letter_data = <<>> THEN "IndexError" ELSE "none"
  /\ UNCHANGED <<uploaded, text, tokens>>

(***************************************************************************)
(* Word Count & Statistics branch.                                         *)
(***************************************************************************)
\* len(sent_tokenize(text)): the trained splitter is not modelled; it gives
\* no sentence for an empty text and breaks only after a full stop
SentenceCounts(s) ==
  IF s = <<>> THEN {0}
  ELSE IF \A i \in 1..Len(s) : isspace(s[i]) THEN {0, 1}
  ELSE 1..(1 + Cardinality({i \in 1..(Len(s) - 1) : s[i] = "."}))

Statistics(total_sentences) ==
  /\ uploaded
  /\ total_sentences \in SentenceCounts(text)
  /\ analysis_type' = "Statistics"
  /\ args' = NoArgs
  /\ LET total_words == Len(tokens)
         unique_words == Cardinality(Range(tokens))
         total_chars == Len(text)
         word_lengths == Seq1([j \in 1..Len(tokens) |-> Len(tokens[j])], Len(tokens))
         counts == [total_words |-> total_words, unique_words |-> unique_words,
                    total_chars |-> total_chars,
                    total_sentences |-> total_sentences]
     IN  IF total_words = 0
         THEN \* unique_words/total_words in the Lexical Diversity metric
              /\ result' = counts
              /\ raised' = "ZeroDivisionError"
         ELSE /\ result' = counts @@
                   [lexical_diversity |-> RoundRatio(unique_words * 1000, total_words),
                    avg_words_per_sentence |->
                      IF total_sentences > 0
                      THEN RoundRatio(total_words * 10, total_sentences)
                      ELSE -1,
                    avg_word_length |->
                      RoundRatio(SumSeq(word_lengths) * 100, Len(word_lengths)),
                    min_word_length |->
                      CHOOSE m \in Range(word_lengths) :
                        \A k \in Range(word_lengths) : m <= k,
                    max_word_length |->
                      CHOOSE m \in Range(word_lengths) :
                        \A k \in Range(word_lengths) : m >= k,
                    chars_no_space |->
                      Cardinality({i \in 1..Len(text) : ~isspace(text[i])}),
                    vocabulary_richness |->
                      RoundRatio(unique_words * 10000, total_words)]
              /\ raised' = "none"
  /\ UNCHANGED <<uploaded, text, tokens>>

(***************************************************************************)
(* The script reruns on every interaction.  Spec explores the analyses of  *)
(* the short and sample texts; SpecConcordance the concordance of long     *)
(* texts; SpecKeyness the keyness comparison.                              *)
(***************************************************************************)
Analyses ==
  \/ \E top_n \in WordListTopN(tokens), min_freq \in 1..MaxMinFreq :
       WordList(top_n, min_freq)
  \/ \E search_word \in Queries : Concordance(search_word)
  \/ \E n \in NGramSizes, top_n \in NGramTopN : NGrams(n, top_n)
  \/ \E min_freq \in 1..MaxMinFreq : Wordcloud(min_freq)
  \/ LetterFrequency
  \/ \E total_sentences \in SentenceCounts(text) : Statistics(total_sentences)

Next ==
  \/ \E t \in Texts : Upload(t)
  \/ Analyses

Spec == Init /\ [][Next]_vars

NextConcordance ==
  \/ \E t \in LongTexts : Upload(t)
  \/ \E search_word \in Queries : Concordance(search_word)

SpecConcordance == Init /\ [][NextConcordance]_vars

NextKeyness ==
  \/ \E t \in SampleTexts : Upload(t)
  \/ \E ref_text \in RefTexts : Keyness(ref_text)

SpecKeyness == Init /\ [][NextKeyness]_vars

(***************************************************************************)
(* Properties.                                                             *)
(***************************************************************************)
\* the 0-based positions of a token sequence that hold the query, compared
\* with both sides lowercased
Occurrences(toks, query) ==
  {i \in 0..(Len(toks) - 1) : StrLower(toks[i + 1]) = StrLower(query)}

Searched == analysis_type = "Concordance" /\ args.search_word # <<>>

\* C1: a concordance search returns one entry for every position whose token
\* equals the query case-insensitively and for no other position, in
\* ascending order, however many occurrences there are.
C1_AllOccurrences ==
  Searched =>
    LET cl == result.concordance_list
    IN  /\ {cl[j].offset : j \in 1..Len(cl)} = Occurrences(tokens, args.search_word)
        /\ Len(cl) = Cardinality(Occurrences(tokens, args.search_word))
        /\ \A j \in 1..(Len(cl) - 1) : cl[j].offset < cl[j + 1].offset

\* C2: the statistics of a corpus without words take a guarded branch: no
\* division by zero is raised.
C2_StatisticsGuarded ==
  (analysis_type = "Statistics" /\ Len(tokens) = 0) => raised = "none"

NoWordsNoLetters == tokens = <<>> /\ \A i \in 1..Len(text) : ~isalpha(text[i])

\* C3: on a text without tokens and without letters the word list, the
\* concordance, the n-grams and the letter frequency end with an empty result
\* and raise nothing.
C3_EmptyNeverRaises ==
  (uploaded /\ NoWordsNoLetters) =>
    /\ analysis_type \in {"Word List", "Concordance", "N-grams", "Letter Frequency"}
         => raised = "none"
    /\ analysis_type = "Word List" => result.filtered_df = <<>>
    /\ Searched => result.concordance_list = <<>>
    /\ analysis_type = "N-grams" => result.n_gram_df = <<>>
    /\ analysis_type = "Letter Frequency" => result.letter_df = <<>>

\* two distinct keys of a table whose lowercase forms are equal
CaseTwins(keys) ==
  \E j, k \in 1..Len(keys) : keys[j] # keys[k] /\ StrLower(keys[j]) = StrLower(keys[k])

\* the number of positions of a sequence that hold x
Occurs(items, x) == Cardinality({i \in 1..Len(items) : items[i] = x})

\* C4 as stated: the word list and the letter frequency count under
\* lowercased keys, so neither table holds two keys that differ only in case.
C4_LowercasedKeys ==
  /\ analysis_type = "Word List" =>
       ~CaseTwins([j \in 1..Len(result.freq_df) |-> result.freq_df[j][1]])
  /\ analysis_type = "Letter Frequency" =>
       ~CaseTwins([j \in 1..Len(result.letter_freq.keys) |->
                     <<result.letter_freq.keys[j]>>])

\* C4 amended: the letter frequency counts every letter under its lowercase
\* form (each key is lowercase, its count the number of letters of the text
\* that lowercase to it); the word list counts the tokens as tokenized, case
\* preserved (its keys are the distinct tokens, each with the number of its
\* exact occurrences).
C4_LettersLowercasedWordsAsIs ==
  /\ analysis_type = "Letter Frequency" =>
       LET fd == result.letter_freq
       IN  /\ ~CaseTwins([j \in 1..Len(fd.keys) |-> <<fd.keys[j]>>])
           /\ \A j \in 1..Len(fd.keys) :
                /\ fd.keys[j] = lower(fd.keys[j])
                /\ fd.cnt[j] = Cardinality({i \in 1..Len(text) :
                                   isalpha(text[i]) /\ lower(text[i]) = fd.keys[j]})
           /\ \A i \in 1..Len(text) :
                isalpha(text[i]) => lower(text[i]) \in Range(fd.keys)
  /\ analysis_type = "Word List" =>
       LET df == result.freq_df
       IN  /\ {df[j][1] : j \in 1..Len(df)} = Range(tokens)
           /\ \A j \in 1..Len(df) : df[j][2] = Occurs(tokens, df[j][1])
           /\ \A j, k \in 1..Len(df) : j # k => df[j][1] # df[k][1]

\* a text with the same letter in both cases, counted under one key
C4_Witness ==
  /\ analysis_type = "Letter Frequency"
  /\ \E i, k \in 1..Len(text) : isalpha(text[i]) /\ text[i] # text[k]
                                 /\ lower(text[i]) = lower(text[k])
  /\ Len(result.letter_freq.keys) = 1
  /\ result.letter_freq.cnt[1] >= 2

\* the tokens at the 0-based positions lo..hi, clamped to the sequence
Window(toks, lo, hi) == SubSeq(toks, Max(lo, 0) + 1, Min(hi, Len(toks) - 1) + 1)

\* C5 as stated: there is a context width w in tokens such that every match
\* at position i has the left context tokens[max(0, i-w) .. i-1] and the right
\* context tokens[i+1 .. min(len-1, i+w)].
C5_SymmetricWindow ==
  Searched =>
    \E w \in 0..Len(tokens) :
      \A j \in 1..Len(result.concordance_list) :
        LET e == result.concordance_list[j]
        IN  /\ e.left = Window(tokens, e.offset - w, e.offset - 1)
            /\ e.right = Window(tokens, e.offset + 1, e.offset + w)

\* C5 amended: the width is the library's, not the caller's: every match at
\* position i has the left context tokens[max(0, i-19) .. i-1] and the right
\* context tokens[i+1 .. min(len-1, i+18)], in the original order and clamped
\* at the ends of the sequence, and the search raises nothing.
C5_LibraryWindow ==
  Searched =>
    /\ raised = "none"
    /\ \A j \in 1..Len(result.concordance_list) :
         LET e == result.concordance_list[j]
         IN  /\ e.left = Window(tokens, e.offset - 19, e.offset - 1)
             /\ e.right = Window(tokens, e.offset + 1, e.offset + 18)
             /\ e.query = tokens[e.offset + 1]

\* a match with more tokens than the window holds on both of its sides
C5_Witness ==
  /\ Searched
  /\ \E j \in 1..Len(result.concordance_list) :
       LET e == result.concordance_list[j]
       IN  /\ e.offset > 19
           /\ Len(tokens) - 1 - e.offset > 19
           /\ Len(e.left) = 19
           /\ Len(e.right) = 18

\* the windows of n consecutive tokens, each joined by single spaces
Windows(toks, n) ==
  [i \in 1..Max(Len(toks) - n + 1, 0) |-> join(Sp, SubSeq(toks, i, i + n - 1))]

\* the table that counting a sequence of items position by position gives
CountsOf(items) == [x \in Range(items) |-> Occurs(items, x)]

AsMap(fd) == [x \in Range(fd.keys) |-> fd.cnt[CHOOSE j \in 1..Len(fd.keys) : fd.keys[j] = x]]

\* C6: for n in 1..5 the counted n-gram items are, for each i from 0 to
\* len(tokens)-n in order, the tokens i..i+n-1 joined by one space:
\* len(tokens)-n+1 items, none when len(tokens) < n; for n = 1 the fast path
\* gives the table that the windowing path would give.
C6_NGramWindows ==
  analysis_type = "N-grams" =>
    LET n == args.n
        items == NGramItems(tokens, n)
        general == [j \in 1..Len(ngrams(tokens, n)) |-> join(Sp, ngrams(tokens, n)[j])]
    IN  /\ Len(items) = (IF Len(tokens) < n THEN 0 ELSE Len(tokens) - n + 1)
        /\ \A i \in 1..Len(items) : items[i] = Windows(tokens, n)[i]
        /\ AsMap(result.n_gram_freq) = CountsOf(Windows(tokens, n))
        /\ n = 1 => /\ result.n_gram_freq = FreqDist(general)
                    /\ Len(general) = Len(tokens)

\* bigrams or longer over a text with more tokens than n, two distinct items
C6_Witness ==
  /\ analysis_type = "N-grams"
  /\ args.n >= 2
  /\ Len(tokens) > args.n
  /\ Len(result.n_gram_freq.keys) >= 2
  /\ \E j \in 1..Len(result.n_gram_freq.cnt) : result.n_gram_freq.cnt[j] >= 2

\* the position of the first occurrence of x in a sequence
FirstPos(items, x) ==
  CHOOSE i \in 1..Len(items) : items[i] = x /\ \A k \in 1..(i - 1) : items[k] # x

\* what C7 asks of a listing of (item, count, ...) rows taken from the counts
\* of a sequence of items
TopNOk(listing, items, n, minFreq) ==
  LET eligible == {x \in Range(items) : Occurs(items, x) >= minFreq}
      listed == {listing[j][1] : j \in 1..Len(listing)}
  IN  /\ \A j \in 1..Len(listing) :
           /\ listing[j][1] \in eligible
           /\ listing[j][2] = Occurs(items, listing[j][1])
           /\ listing[j][2] >= minFreq
      /\ Len(listing) = Min(n, Cardinality(eligible))
      /\ Cardinality(listed) = Len(listing)
      /\ \A j \in 1..(Len(listing) - 1) :
           \/ listing[j][2] > listing[j + 1][2]
           \/ /\ listing[j][2] = listing[j + 1][2]
              /\ FirstPos(items, listing[j][1]) < FirstPos(items, listing[j + 1][1])
      /\ \A x \in Range(items) \ listed :
           \A j \in 1..Len(listing) : Occurs(items, x) <= listing[j][2]

\* C7: the top-N listing holds only entries with count >= minFreq, has length
\* min(n, number of distinct items with count >= minFreq), is sorted by count
\* descending with equal counts in order of first occurrence, and leaves out
\* no entry with a higher count than a listed one.
C7_TopN ==
  /\ analysis_type = "Word List" =>
       TopNOk(result.filtered_df, tokens, args.top_n, args.min_freq)
  /\ analysis_type = "N-grams" =>
       TopNOk(result.n_gram_df, NGramItems(tokens, args.n), args.top_n, 1)

\* a listing cut short by n, with a tie among its rows
C7_Witness ==
  /\ analysis_type = "Word List"
  /\ Len(result.filtered_df) = args.top_n
  /\ Len(result.freq_df) > args.top_n
  /\ \E j \in 1..(Len(result.filtered_df) - 1) :
       result.filtered_df[j][2] = result.filtered_df[j + 1][2]

BandRank(b) ==
  CASE b = "Low" -> 0 [] b = "Medium" -> 1 [] b = "High" -> 2 [] b = "Very High" -> 3

\* C9: every keyness value has exactly one band, "Very High" iff x > 15.13,
\* "High" iff 10.83 < x <= 15.13, "Medium" iff 6.63 < x <= 10.83, "Low" iff
\* x <= 6.63, and the band never decreases as x increases.
C9_Bands ==
  analysis_type = "Keyness" =>
    /\ \A j \in 1..Len(result.keyness_df) :
         LET x == result.keyness_df[j][2]
             b == result.keyness_df[j][3]
         IN  /\ b \in {"Low", "Medium", "High", "Very High"}
             /\ b = "Very High" <=> x > 1513
             /\ b = "High" <=> (1083 < x /\ x <= 1513)
             /\ b = "Medium" <=> (663 < x /\ x <= 1083)
             /\ b = "Low" <=> x <= 663
             /\ \A y \in LLValues :
                  y <= x => BandRank(Significance(y)) <= BandRank(b)

\* a value exactly on a threshold, banded below it
C9_Witness ==
  /\ analysis_type = "Keyness"
  /\ \E j \in 1..Len(result.keyness_df) :
       /\ result.keyness_df[j][2] = 1513
       /\ result.keyness_df[j][3] = "High"

\* C10: the counts of the frequency table of a token sequence sum to the
\* number of tokens, every key occurs in the sequence, every count is at
\* least 1, and the distinct words are never more than the words.
C10_CountsSumToLength ==
  /\ analysis_type = "Word List" =>
       LET df == result.freq_df
       IN  /\ SumSeq([j \in 1..Len(df) |-> df[j][2]]) = Len(tokens)
           /\ \A j \in 1..Len(df) : df[j][1] \in Range(tokens) /\ df[j][2] >= 1
           /\ Len(df) <= Len(tokens)
  /\ (analysis_type = "Statistics") =>
       result.unique_words <= result.total_words

\* a word list of a text in which a token repeats
C10_Witness ==
  /\ analysis_type = "Word List"
  /\ Len(result.freq_df) >= 2
  /\ Len(result.freq_df) < Len(tokens)

====
